---------------------------- MODULE Spec2Model ----------------------------
(***************************************************************************)
(* A model of the WebRTC signaling server and its WebRTC-to-RTMP bridge.   *)
(*                                                                         *)
(*   src/bridge/WebRTCToRTMPBridge.js   the bridge (class                  *)
(*                                      WebRTCToRTMPBridge)                *)
(*   src/server.js                      the socket.io signaling handlers   *)
(*                                      and the /webrtc-bridge routes      *)
(*                                                                         *)
(* JavaScript runs every handler to completion: an engine callback, a      *)
(* timer, a process event or a request is one task of the event loop, and  *)
(* the continuation of an await runs as a microtask right after the task   *)
(* that settled the promise.  Each task is one action here.  A function    *)
(* called by several tasks (cleanupStream, setupMediaProcessing) is an     *)
(* operator from bridge state to bridge state, its statements composed in  *)
(* the order of the source.                                                *)
(***************************************************************************)
EXTENDS Integers, Sequences, FiniteSets, Bags, TLC

(***************************************************************************)
(* Bounds of the model.                                                    *)
(***************************************************************************)
\* handleOffer calls that get as far as creating a peer connection
MaxCalls == 2
\* track events the engine raises, over all peer connections
MaxTracks == 2
MaxSdpTracks == 4
\* entries of all participant lists together
MaxEntries == 3
\* symbols of TURN_SERVER_URL
MaxUrlLen == 4
\* 'icecandidate' events the engine raises, over all peer connections
MaxCandidates == 3

StreamIds == {"s1", "s2"}
\* socket ids; room names are never socket ids
Conns == {"c1", "c2", "c3"}
RoomIds == {"r1", "r2"}
UserIds == {"u1", "u2"}
\* the role each user joins with
UserTypeOf(u) == IF u = "u1" THEN "broadcaster" ELSE "viewer"
RelayKinds == {"offer", "answer", "ice-candidate"}
\* what a relayed message carries (an offer, an answer, a candidate, a pair
\* of states); every message carries one
Payloads == {"x", "y"}
TrackKinds == {"audio", "video"}
\* the exit code handed to the 'close' listener of the child process
ExitCodes == {"zero", "nonzero", "null"}

VARIABLES
  activeStreams,  \* this.activeStreams: streamId -> session record
  pcs,            \* the RTCPeerConnections created so far, each with the
                  \* handleOffer call that created it
  ffmpegs,        \* the ffmpeg child process of each call
  tracks,         \* the tracks the engine raised on each peer connection
  cleaned,        \* 'stream-cleaned' notifications emitted, per streamId
  wrtcAvailable,  \* this.wrtcAvailable
  last,           \* the request the latest step served, with its response,
                  \* until the response is on the wire
  sockets,        \* the socket.io connections: connected or gone (connecting
                  \* only installs the handlers, so a connection that has not
                  \* connected yet and one that has are the same state)
  users,          \* the Map users, in insertion order
  rooms,          \* the Map rooms: roomId -> participant list
  joined,         \* the socket.io rooms each connection is in
  sent,           \* what the latest signaling handler emitted
  uncaught,       \* an exception has left a signaling handler: nothing
                  \* catches it, and the process ends
  env,            \* process.env: TURN_SERVER_URL, TURN_USERNAME and
                  \* TURN_CREDENTIAL
  iceServers      \* what the latest getIceServers() returned

bridgeVars ==
  <<activeStreams, pcs, ffmpegs, tracks, cleaned, wrtcAvailable>>
relayVars == <<sockets, users, rooms, joined, sent, uncaught>>
envVars == <<env, iceServers>>
vars == <<activeStreams, pcs, ffmpegs, tracks, cleaned, wrtcAvailable, last,
          sockets, users, rooms, joined, sent, uncaught, env, iceServers>>

\* the bridge state as one value, for the operators that transform it
Bridge ==
  [activeStreams |-> activeStreams, pcs |-> pcs, ffmpegs |-> ffmpegs,
   tracks |-> tracks, cleaned |-> cleaned]

SetBridge(st) ==
  /\ activeStreams' = st.activeStreams
  /\ pcs' = st.pcs
  /\ ffmpegs' = st.ffmpegs
  /\ tracks' = st.tracks
  /\ cleaned' = st.cleaned
  /\ UNCHANGED wrtcAvailable

NoTrack == <<0, 0>>

\* the value of activeStreams.get(streamId) for an absent key
NoSession ==
  [pc |-> 0, streamKey |-> 0, ffmpeg |-> 0, audioTrack |-> NoTrack,
   videoTrack |-> NoTrack, sdpCreated |-> FALSE, sdps |-> 0]

\* the record handleOffer stores; sdps counts the calls of
\* createSDPForFFmpeg made for the session
NewSession(p, key) ==
  [pc |-> p, streamKey |-> key, ffmpeg |-> 0, audioTrack |-> NoTrack,
   videoTrack |-> NoTrack, sdpCreated |-> FALSE, sdps |-> 0]

NoCall == [op |-> "none", sid |-> "", res |-> 0, pc |-> 0, raised |-> {}]

\* a request served with status res; pc is the peer connection the engine
\* was called on, if any (sid is left empty where the response is written
\* before the streamId is put to any use)
Served(op, sid, res, p) ==
  [op |-> op, sid |-> sid, res |-> res, pc |-> p, raised |-> {}]

\* a task runs when the response of the request before it has been written
Responded == last = NoCall

Calls == 1 .. Len(pcs)

\* the emissions of a handler: a bag of messages
NoneSent == EmptyBag

\* an environment variable that is not set, and a call not made yet
Undefined == "undefined"
NotCalled == << >>

\* a string is the sequence of its symbols; TURN_SERVER_URL when it is not
\* set is kept apart from every string by a symbol of its own
UnsetUrl == <<Undefined>>

\* the environment without a TURN server
NoTurn == [url |-> UnsetUrl, username |-> Undefined, credential |-> Undefined]

\* the bridge and the relay after construction
InitServer ==
  /\ activeStreams = [s \in StreamIds |-> NoSession]
  /\ pcs = << >>
  /\ ffmpegs = << >>
  /\ tracks = << >>
  /\ cleaned = [s \in StreamIds |-> 0]
  /\ wrtcAvailable = FALSE
  /\ last = NoCall
  /\ sockets = [c \in Conns |-> "connected"]
  /\ users = << >>
  /\ rooms = << >>
  /\ joined = [c \in Conns |-> {}]
  /\ sent = NoneSent
  /\ uncaught = FALSE

Init ==
  /\ InitServer
  /\ env = NoTurn
  /\ iceServers = NotCalled

(***************************************************************************)
(* getIceServers                                                           *)
(***************************************************************************)
\* the symbols a TURN_SERVER_URL is made of: the two scheme prefixes, a
\* slash, a host name, white space and the separator
UrlSymbols == {"turn:", "turns:", "/", "h", " ", ","}

\* the strings of at most MaxUrlLen symbols
Urls == UNION {[1 .. n -> UrlSymbols] : n \in 0 .. MaxUrlLen}

\* the values of TURN_USERNAME and of TURN_CREDENTIAL
Usernames == {Undefined, "", "alice"}
Credentials == {Undefined, "", "secret"}

Envs ==
  [url : Urls \cup {UnsetUrl}, username : Usernames,
   credential : Credentials]

\* String.prototype.split(',')
RECURSIVE Split(_)
Split(str) ==
  LET commas == {i \in 1 .. Len(str) : str[i] = ","}
  IN IF commas = {} THEN <<str>>
     ELSE LET i == CHOOSE i \in commas : \A j \in commas : i <= j
          IN <<SubSeq(str, 1, i - 1)>> \o Split(SubSeq(str, i + 1, Len(str)))

\* String.prototype.trim()
RECURSIVE Trim(_)
Trim(str) ==
  IF str = << >> THEN str
  ELSE IF str[1] = " " THEN Trim(Tail(str))
  ELSE IF str[Len(str)] = " " THEN Trim(SubSeq(str, 1, Len(str) - 1))
  ELSE str

\* url.startsWith('turn:') || url.startsWith('turns:')
HasScheme(url) == url # << >> /\ url[1] \in {"turn:", "turns:"}

\* url.replace(/^(turn|turns):\/\//, '')
StripScheme(url) ==
  IF Len(url) >= 3 /\ url[1] \in {"turn:", "turns:"}
     /\ url[2] = "/" /\ url[3] = "/"
  THEN SubSeq(url, 4, Len(url))
  ELSE url

\* value || undefined
OrUndefined(value) == IF value = "" THEN Undefined ELSE value

\* a TURN entry of the list
TurnServer(url, e) ==
  [urls |-> url, username |-> OrUndefined(e.username),
   credential |-> OrUndefined(e.credential)]

\* the two STUN entries the list starts with
StunServers ==
  << [urls |-> <<"stun:stun.l.google.com:19302">>],
     [urls |-> <<"stun:stun1.l.google.com:19302">>] >>

\* a resolver that adds the transport hints to every URL
PushTurnServersHinted(url, e) ==
  << TurnServer(<<"turn:">> \o StripScheme(url) \o <<"?transport=udp">>, e),
     TurnServer(<<"turn:">> \o StripScheme(url) \o <<"?transport=tcp">>, e) >>

\* what the forEach body pushes for one URL
PushTurnServers(url, e) ==
  IF HasScheme(url) THEN << TurnServer(url, e) >>
  ELSE << TurnServer(<<"turn:">> \o StripScheme(url)
                       \o <<"?transport=udp">>, e),
          TurnServer(<<"turn:">> \o StripScheme(url)
                       \o <<"?transport=tcp">>, e) >>

\* turnUrls.forEach(...) over the pieces of TURN_SERVER_URL, each trimmed
RECURSIVE ForEachTurnUrl(_, _)
ForEachTurnUrl(pieces, e) ==
  IF pieces = << >> THEN << >>
  ELSE PushTurnServers(Trim(Head(pieces)), e)
         \o ForEachTurnUrl(Tail(pieces), e)

\* getIceServers() in the environment e
GetIceServers(e) ==
  IF e.url = UnsetUrl \/ e.url = << >> THEN StunServers
  ELSE StunServers \o ForEachTurnUrl(Split(e.url), e)

\* a call of getIceServers()
CallGetIceServers ==
  /\ iceServers' = GetIceServers(env)
  /\ UNCHANGED <<bridgeVars, last, relayVars, env>>

\* getIceServers() in every environment
InitIceServers ==
  /\ InitServer
  /\ env \in Envs
  /\ iceServers = NotCalled

SpecIceServers == InitIceServers /\ [][CallGetIceServers]_vars

(***************************************************************************)
(* cleanupStream                                                           *)
(***************************************************************************)
\* streamInfo.pc.close(); heldAtClose notes whether the registry still held
\* a session under sid when the connection was closed
ClosePc(st, p, sid) ==
  [st EXCEPT !.pcs[p] =
     [@ EXCEPT !.closeCalls = @ + 1,
               !.connectionState = "closed",
               !.closedEvent = @ \/ st.pcs[p].connectionState # "closed",
               !.heldAtClose = st.activeStreams[sid] # NoSession]]

\* streamInfo.ffmpeg.kill('SIGTERM'): the signal is sent, and killed set,
\* when the process has not exited; then the 5000 ms timer is set
KillFfmpeg(st, q) ==
  [st EXCEPT !.ffmpegs[q] =
     [@ EXCEPT !.sigterm = @ + 1,
               !.killed = @ \/ st.ffmpegs[q].state = "running",
               !.timers = @ + 1]]

\* track.stop() on track t = <<p, i>>
StopTrack(st, t) ==
  [st EXCEPT !.tracks[t[1]][t[2]].stops = @ + 1]

\* a cleanupStream that leaves the session in the registry
DeleteSessionSkipped(st, sid) == st

\* this.activeStreams.delete(streamId)
DeleteSession(st, sid) ==
  [st EXCEPT !.activeStreams[sid] = NoSession]

\* this.emit('stream-cleaned', streamId)
EmitCleaned(st, sid) ==
  [st EXCEPT !.cleaned[sid] = @ + 1]

\* the release statements of cleanupStream, in the order of the source
ReleaseSession(st, sid) ==
  LET info == st.activeStreams[sid]
      s1 == IF info.pc # 0 THEN ClosePc(st, info.pc, sid) ELSE st
      s2 == IF info.ffmpeg # 0 THEN KillFfmpeg(s1, info.ffmpeg) ELSE s1
      s3 == IF info.audioTrack # NoTrack
            THEN StopTrack(s2, info.audioTrack) ELSE s2
      s4 == IF info.videoTrack # NoTrack
            THEN StopTrack(s3, info.videoTrack) ELSE s3
  IN s4

\* cleanupStream(sid): nothing when no session is registered; otherwise
\* release, then delete, then emit
CleanupStream(st, sid) ==
  IF st.activeStreams[sid] = NoSession THEN st
  ELSE EmitCleaned(DeleteSession(ReleaseSession(st, sid), sid), sid)

\* the release steps of cleanupStream, each in a try of its own
ReleaseSteps == {"close", "kill", "stopAudio", "stopVideo"}

\* pc.close() raises: the call was made, the connection is as it was
ClosePcRaises(st, p) ==
  [st EXCEPT !.pcs[p].closeCalls = @ + 1]

\* ffmpeg.kill('SIGTERM') raises: the call was made, no signal is sent and
\* the timer, set after the call in the same try, is not set
KillFfmpegRaises(st, q) ==
  [st EXCEPT !.ffmpegs[q].sigterm = @ + 1]

\* track.stop() raises: the call was made
StopTrackRaises(st, t) ==
  [st EXCEPT !.tracks[t[1]][t[2]].stops = @ + 1]

\* the release statements of cleanupStream when the steps in raised raise:
\* each catch logs and the next statement runs
ReleaseSessionRaising(st, sid, raised) ==
  LET info == st.activeStreams[sid]
      s1 == IF info.pc = 0 THEN st
            ELSE IF "close" \in raised THEN ClosePcRaises(st, info.pc)
            ELSE ClosePc(st, info.pc, sid)
      s2 == IF info.ffmpeg = 0 THEN s1
            ELSE IF "kill" \in raised THEN KillFfmpegRaises(s1, info.ffmpeg)
            ELSE KillFfmpeg(s1, info.ffmpeg)
      s3 == IF info.audioTrack = NoTrack THEN s2
            ELSE IF "stopAudio" \in raised
                 THEN StopTrackRaises(s2, info.audioTrack)
            ELSE StopTrack(s2, info.audioTrack)
      s4 == IF info.videoTrack = NoTrack THEN s3
            ELSE IF "stopVideo" \in raised
                 THEN StopTrackRaises(s3, info.videoTrack)
            ELSE StopTrack(s3, info.videoTrack)
  IN s4

\* a cleanupStream with one try around all its statements
CleanupStreamOneTry(st, sid, raised) ==
  IF st.activeStreams[sid] = NoSession \/ raised # {} THEN st
  ELSE EmitCleaned(DeleteSession(ReleaseSession(st, sid), sid), sid)

\* cleanupStream(sid) when the release steps in raised raise
CleanupStreamRaising(st, sid, raised) ==
  IF st.activeStreams[sid] = NoSession THEN st
  ELSE EmitCleaned(
         DeleteSession(ReleaseSessionRaising(st, sid, raised), sid), sid)

(***************************************************************************)
(* handleOffer                                                             *)
(***************************************************************************)
\* new RTCPeerConnection(...) with the handlers of lines 155-179, up to the
\* first await (setRemoteDescription); iceCandidates is the array of the
\* call, emitted what the engine raised on 'icecandidate' so far, result the
\* iceCandidates of the value handleOffer returned
NewPc(sid, key) ==
  [sid |-> sid, key |-> key, pos |-> "setRemote", connectionState |-> "new",
   iceTimer |-> FALSE, closeCalls |-> 0, closedEvent |-> FALSE,
   heldAtClose |-> FALSE, ontrack |-> FALSE, iceCandidates |-> << >>,
   emitted |-> << >>, result |-> << >>]

\* a child process not spawned yet; crashed notes an exit with a code other
\* than 0 and null
NoProcess ==
  [state |-> "none", crashed |-> FALSE, sigterm |-> 0, killed |-> FALSE,
   timers |-> 0, sigkill |-> 0]

\* setupMediaProcessing(pc, streamId, streamKey) of call p: spawn ffmpeg,
\* install pc.ontrack, and hand the process to a session already stored
\* under the streamId
SetupMediaProcessing(st, p) ==
  LET sid == st.pcs[p].sid
      s1 == [st EXCEPT !.ffmpegs[p].state = "running",
                       !.pcs[p].ontrack = TRUE]
  IN IF s1.activeStreams[sid] # NoSession
     THEN [s1 EXCEPT !.activeStreams[sid].ffmpeg = p]
     ELSE s1

\* a handleOffer that returns without storing the session
StoreSessionSkipped(st, p) == st

\* this.activeStreams.set(streamId, {...})
StoreSession(st, p) ==
  [st EXCEPT !.activeStreams[st.pcs[p].sid] = NewSession(p, st.pcs[p].key)]

\* handleOffer of call p from the end of the ICE wait to its return
FinishHandleOffer(st, p) ==
  LET s1 == StoreSession(SetupMediaProcessing(st, p), p)
  IN [s1 EXCEPT !.pcs[p].pos = "returned", !.pcs[p].iceTimer = FALSE,
                !.pcs[p].result = st.pcs[p].iceCandidates]

\* a waitForIceGathering without its timeout fallback
WaitForIceGatheringUntimed(st, p, complete) ==
  IF complete THEN FinishHandleOffer(st, p)
  ELSE [st EXCEPT !.pcs[p].pos = "iceWait"]

\* waitForIceGathering(pc, 5000) of call p, complete being what
\* pc.iceGatheringState === 'complete' yields on entry: resolved at once,
\* or the listener and the timer are set
WaitForIceGathering(st, p, complete) ==
  IF complete THEN FinishHandleOffer(st, p)
  ELSE [st EXCEPT !.pcs[p].pos = "iceWait", !.pcs[p].iceTimer = TRUE]

\* the stream key of the n-th offer: keys are opaque to the bridge, and
\* every offer brings one of its own
StreamKeyOf(n) == n

\* the offers a request body carries: complete, without a type, without an
\* sdp, or none
Offers == {"offer", "notype", "nosdp", "none"}

\* a handleOffer that goes on without the engine
HandleOfferCallUnchecked(sid, key, loads) ==
  /\ Len(pcs) < MaxCalls
  /\ key = StreamKeyOf(Len(pcs) + 1)
  /\ pcs' = Append(pcs, NewPc(sid, key))
  /\ ffmpegs' = Append(ffmpegs, NoProcess)
  /\ tracks' = Append(tracks, << >>)
  /\ last' = NoCall
  /\ UNCHANGED <<activeStreams, cleaned, wrtcAvailable>>

\* handleOffer(sid, key, offer) up to its first await on the peer
\* connection; loads is what loadWrtc() yields when the engine is not
\* loaded yet.  Without the engine the call throws, and the route answers 500
HandleOfferCall(sid, key, loads) ==
  IF ~ (wrtcAvailable \/ loads)
  THEN /\ last' = Served("offer", "", 500, 0)
       /\ UNCHANGED bridgeVars
  ELSE /\ Len(pcs) < MaxCalls
       /\ key = StreamKeyOf(Len(pcs) + 1)
       /\ wrtcAvailable' = TRUE
       /\ pcs' = Append(pcs, NewPc(sid, key))
       /\ ffmpegs' = Append(ffmpegs, NoProcess)
       /\ tracks' = Append(tracks, << >>)
       /\ last' = NoCall
       /\ UNCHANGED <<activeStreams, cleaned>>

\* POST /webrtc-bridge/:streamId/offer; key 0 is an empty or missing
\* streamKey
PostOffer(sid, key, offer, loads) ==
  /\ Responded
  /\ IF key = 0 \/ offer # "offer"
     THEN /\ last' = Served("offer", "", 400, 0)
          /\ UNCHANGED bridgeVars
     ELSE HandleOfferCall(sid, key, loads)
  /\ UNCHANGED <<relayVars, envVars>>

\* await pc.setRemoteDescription(...) settles
SetRemoteDescriptionSettled(p, ok) ==
  /\ Responded
  /\ pcs[p].pos = "setRemote"
  /\ pcs' = [pcs EXCEPT ![p].pos = IF ok THEN "createAnswer" ELSE "threw"]
  /\ last' = NoCall
  /\ UNCHANGED <<relayVars, envVars>>
  /\ UNCHANGED <<activeStreams, ffmpegs, tracks, cleaned, wrtcAvailable>>

\* await pc.createAnswer() settles
CreateAnswerSettled(p, ok) ==
  /\ Responded
  /\ pcs[p].pos = "createAnswer"
  /\ pcs' = [pcs EXCEPT ![p].pos = IF ok THEN "setLocal" ELSE "threw"]
  /\ last' = NoCall
  /\ UNCHANGED <<relayVars, envVars>>
  /\ UNCHANGED <<activeStreams, ffmpegs, tracks, cleaned, wrtcAvailable>>

\* await pc.setLocalDescription(answer) settles; on success the ICE wait
\* starts
SetLocalDescriptionSettled(p, ok, complete) ==
  /\ Responded
  /\ pcs[p].pos = "setLocal"
  /\ SetBridge(IF ok THEN WaitForIceGathering(Bridge, p, complete)
               ELSE [Bridge EXCEPT !.pcs[p].pos = "threw"])
  /\ last' = NoCall
  /\ UNCHANGED <<relayVars, envVars>>

\* the engine raises 'icegatheringstatechange' during the wait;
\* checkComplete resolves it when the state is 'complete'
IceGatheringStateChange(p, complete) ==
  /\ Responded
  /\ pcs[p].pos = "iceWait"
  /\ SetBridge(IF complete THEN FinishHandleOffer(Bridge, p) ELSE Bridge)
  /\ last' = NoCall
  /\ UNCHANGED <<relayVars, envVars>>

\* the timer of waitForIceGathering fires while the wait is pending (fired
\* after the wait was resolved, it changes nothing); a timer waits for no
\* response: the response of the request before it is written by then
IceTimeout(p) ==
  /\ pcs[p].iceTimer
  /\ pcs[p].pos = "iceWait"
  /\ SetBridge(FinishHandleOffer(Bridge, p))
  /\ last' = NoCall
  /\ UNCHANGED <<relayVars, envVars>>

(***************************************************************************)
(* Callbacks of the engine and of the child process                        *)
(***************************************************************************)
\* the connection states the engine moves an open peer connection to
\* ('new' stands for 'new' and 'connecting', which the handler ignores)
EngineStatesAfter(s) ==
  CASE s = "new" -> {"connected", "failed"}
    [] s = "connected" -> {"disconnected", "failed"}
    [] s = "disconnected" -> {"connected", "failed"}
    [] OTHER -> {}

\* pc.onconnectionstatechange in state s: cleanupStream on failed,
\* disconnected and closed ('stream-connected' on connected)
OnConnectionStateChange(st, sid, s) ==
  IF s \in {"failed", "disconnected", "closed"}
  THEN CleanupStream(st, sid)
  ELSE st

\* the engine moves peer connection p to state s and raises
\* 'connectionstatechange'
ConnectionStateChange(p, s) ==
  /\ Responded
  /\ pcs[p].pos \in {"iceWait", "returned"}
  /\ pcs[p].closeCalls = 0
  /\ s \in EngineStatesAfter(pcs[p].connectionState)
  /\ SetBridge(OnConnectionStateChange(
                 [Bridge EXCEPT !.pcs[p].connectionState = s], pcs[p].sid, s))
  /\ last' = NoCall
  /\ UNCHANGED <<relayVars, envVars>>

\* the 'connectionstatechange' event that pc.close() left to be delivered
ClosedEvent(p) ==
  /\ Responded
  /\ pcs[p].closedEvent
  /\ SetBridge(OnConnectionStateChange(
                 [Bridge EXCEPT !.pcs[p].closedEvent = FALSE],
                 pcs[p].sid, pcs[p].connectionState))
  /\ last' = NoCall
  /\ UNCHANGED <<relayVars, envVars>>

RECURSIVE SumLen(_)
SumLen(ss) == IF ss = << >> THEN 0 ELSE Len(Head(ss)) + SumLen(Tail(ss))

\* the number of tracks raised so far
TracksRaised == SumLen(tracks)

\* a track as pc.ontrack leaves it: onended is set when the handler got as
\* far as installing track.onended
NewTrack(kind, handled) ==
  [kind |-> kind, stops |-> 0, onended |-> handled]

\* a hand-off whenever both tracks are stored
CreatesSdpUnguarded(info) ==
  info.audioTrack # NoTrack /\ info.videoTrack # NoTrack

\* the condition of the hand-off to createSDPForFFmpeg (line 330)
CreatesSdp(info) ==
  info.audioTrack # NoTrack /\ info.videoTrack # NoTrack /\ ~ info.sdpCreated

\* the session record after pc.ontrack stored track t of the given kind
\* (lines 324-337); q is the process of the handler's closure
OnTrackStore(info, t, kind, q) ==
  LET stored == IF kind = "audio" THEN [info EXCEPT !.audioTrack = t]
                ELSE IF kind = "video" THEN [info EXCEPT !.videoTrack = t]
                ELSE info
      creates == CreatesSdp(stored)
  IN [stored EXCEPT !.sdpCreated = @ \/ creates,
                    !.sdps = IF creates THEN @ + 1 ELSE @,
                    !.ffmpeg = q]

\* the engine raises 'track' on peer connection p, at most max events in
\* all; pc.ontrack, once
\* setupMediaProcessing has installed it, stores the track on the session
\* registered under the streamId
OnTrack(max, p, kind) ==
  /\ Responded
  /\ pcs[p].pos \in {"iceWait", "returned"}
  /\ pcs[p].connectionState # "closed"
  /\ TracksRaised < max
  /\ LET sid == pcs[p].sid
         t == <<p, Len(tracks[p]) + 1>>
         handled == pcs[p].ontrack /\ activeStreams[sid] # NoSession
     IN /\ tracks' = [tracks EXCEPT ![p] = Append(@, NewTrack(kind, handled))]
        /\ activeStreams' =
             IF handled
             THEN [activeStreams EXCEPT ![sid] = OnTrackStore(@, t, kind, p)]
             ELSE activeStreams
  /\ last' = NoCall
  /\ UNCHANGED <<relayVars, envVars>>
  /\ UNCHANGED <<pcs, ffmpegs, cleaned, wrtcAvailable>>

\* a 'track' event while fewer than MaxTracks were raised
EngineTrack(p, kind) == OnTrack(MaxTracks, p, kind)

\* a 'track' event while fewer than MaxSdpTracks were raised
EngineTrackRepeated(p, kind) == OnTrack(MaxSdpTracks, p, kind)

\* track i of peer connection p ends: track.onended calls cleanupStream
\* (the event is raised once, onended is cleared with it)
TrackEnded(p, i) ==
  /\ Responded
  /\ i \in 1 .. Len(tracks[p])
  /\ tracks[p][i].onended
  /\ SetBridge(CleanupStream([Bridge EXCEPT !.tracks[p][i].onended = FALSE],
                             pcs[p].sid))
  /\ last' = NoCall
  /\ UNCHANGED <<relayVars, envVars>>

\* a 'close' listener that cleans up whatever the code
OnFfmpegCloseAlways(st, sid, code) == CleanupStream(st, sid)

\* a 'close' listener that only logs
OnFfmpegCloseLogged(st, sid, code) == st

\* the 'close' listener of the process: cleanupStream unless the code is 0
\* or null
OnFfmpegClose(st, sid, code) ==
  IF code # "zero" /\ code # "null" THEN CleanupStream(st, sid) ELSE st

\* the child process of call p exits and raises 'close'
FfmpegExit(p, code) ==
  /\ Responded
  /\ ffmpegs[p].state = "running"
  /\ SetBridge(OnFfmpegClose(
                 [Bridge EXCEPT !.ffmpegs[p].state = "exited",
                                !.ffmpegs[p].crashed =
                                  code # "zero" /\ code # "null"],
                 pcs[p].sid, code))
  /\ last' = NoCall
  /\ UNCHANGED <<relayVars, envVars>>

\* an 'error' listener that only logs
OnFfmpegErrorLogged(st, sid) == st

\* the 'error' listener of the process: cleanupStream, whatever the error
OnFfmpegError(st, sid) == CleanupStream(st, sid)

\* handleOffer of call p from the end of the ICE wait to its return when
\* spawn() cannot start the executable: the process object is returned all
\* the same, the statements after it run (ontrack installed, session
\* stored), and 'error' is raised on the next tick, before any other task
SpawnFails(st, p) ==
  OnFfmpegError([FinishHandleOffer(st, p) EXCEPT !.ffmpegs[p].state = "failed"],
                st.pcs[p].sid)

\* the wait of call p is resolved and the spawn that follows fails
FfmpegError(p) ==
  /\ Responded
  /\ pcs[p].pos = "iceWait"
  /\ SetBridge(SpawnFails(Bridge, p))
  /\ last' = NoCall
  /\ UNCHANGED <<relayVars, envVars>>

\* the event of the end of gathering (event.candidate null)
NoCandidate == 0

\* the 'icecandidate' events raised so far, over all peer connections
RECURSIVE EmittedOn(_, _)
EmittedOn(ps, n) == IF n = 0 THEN 0 ELSE Len(ps[n].emitted) + EmittedOn(ps, n - 1)

\* an onicecandidate that pushes whatever the event carries
OnIceCandidatePushesAll(pc, candidate) ==
  [pc EXCEPT !.iceCandidates = Append(@, candidate)]

\* pc.onicecandidate: a candidate is pushed on the array of the call, the
\* end of gathering is logged
OnIceCandidate(pc, candidate) ==
  IF candidate # NoCandidate
  THEN [pc EXCEPT !.iceCandidates = Append(@, candidate)]
  ELSE pc

\* the engine raises 'icecandidate' on peer connection p, with a candidate
\* of its own or with null
IceCandidate(p, candidate) ==
  /\ Responded
  /\ pcs[p].connectionState # "closed"
  /\ EmittedOn(pcs, Len(pcs)) < MaxCandidates
  /\ candidate \in {NoCandidate, EmittedOn(pcs, Len(pcs)) + 1}
  /\ pcs' = [pcs EXCEPT ![p] =
               OnIceCandidate([@ EXCEPT !.emitted = Append(@, candidate)],
                              candidate)]
  /\ UNCHANGED <<activeStreams, ffmpegs, tracks, cleaned, wrtcAvailable, last>>
  /\ UNCHANGED <<relayVars, envVars>>

\* a 5000 ms timer of cleanupStream fires for process q: SIGKILL when
\* killed is not set, and the signal is sent, and killed set, when the
\* process has not exited
KillTimeout(q) ==
  /\ Responded
  /\ ffmpegs[q].timers > 0
  /\ ffmpegs' =
       [ffmpegs EXCEPT ![q] =
          IF ~ ffmpegs[q].killed /\ ffmpegs[q].state = "running"
          THEN [@ EXCEPT !.timers = @ - 1, !.sigkill = @ + 1,
                         !.killed = TRUE]
          ELSE [@ EXCEPT !.timers = @ - 1]]
  /\ UNCHANGED <<activeStreams, pcs, tracks, cleaned, wrtcAvailable, last>>
  /\ UNCHANGED <<relayVars, envVars>>

(***************************************************************************)
(* Requests that call cleanupStream                                        *)
(***************************************************************************)
\* a DELETE route that answers 404 for a stream without a session
DeleteRouteStrict(sid) ==
  /\ Responded
  /\ SetBridge(CleanupStream(Bridge, sid))
  /\ last' = Served("delete", sid,
                    IF activeStreams[sid] # NoSession THEN 200 ELSE 404, 0)
  /\ UNCHANGED <<relayVars, envVars>>

\* DELETE /webrtc-bridge/:streamId
DeleteRoute(sid) ==
  /\ Responded
  /\ SetBridge(CleanupStream(Bridge, sid))
  /\ last' = Served("delete", sid, 200, 0)
  /\ UNCHANGED <<relayVars, envVars>>

\* the release steps a cleanupStream(sid) makes: those whose resource the
\* session holds
StepsOf(sid) ==
  LET info == activeStreams[sid]
  IN {x \in ReleaseSteps :
        \/ x = "close" /\ info.pc # 0
        \/ x = "kill" /\ info.ffmpeg # 0
        \/ x = "stopAudio" /\ info.audioTrack # NoTrack
        \/ x = "stopVideo" /\ info.videoTrack # NoTrack}

\* DELETE /webrtc-bridge/:streamId for a registered session, some of the
\* release steps raising
DeleteRouteRaising(sid, raised) ==
  /\ Responded
  /\ activeStreams[sid] # NoSession
  /\ raised # {}
  /\ raised \subseteq StepsOf(sid)
  /\ SetBridge(CleanupStreamRaising(Bridge, sid, raised))
  /\ last' = [Served("delete", sid, 200, 0) EXCEPT !.raised = raised]
  /\ UNCHANGED <<relayVars, envVars>>

\* cleanupStream(sid) called twice in immediate succession
CleanupTwice(sid) ==
  /\ Responded
  /\ SetBridge(CleanupStream(CleanupStream(Bridge, sid), sid))
  /\ last' = IF activeStreams[sid] # NoSession
             THEN Served("cleanupTwice", sid, 0, 0)
             ELSE NoCall
  /\ UNCHANGED <<relayVars, envVars>>

\* what getStreamInfo returns for an absent key (null)
NoInfo ==
  [streamKey |-> 0, connectionState |-> "unknown", hasAudio |-> FALSE,
   hasVideo |-> FALSE, ffmpegRunning |-> FALSE]

\* getStreamInfo(sid)
GetStreamInfo(st, sid) ==
  LET info == st.activeStreams[sid]
  IN IF info = NoSession THEN NoInfo
     ELSE [streamKey |-> info.streamKey,
           connectionState |-> st.pcs[info.pc].connectionState,
           hasAudio |-> info.audioTrack # NoTrack,
           hasVideo |-> info.videoTrack # NoTrack,
           ffmpegRunning |-> /\ info.ffmpeg # 0
                             /\ ~ st.ffmpegs[info.ffmpeg].killed]

\* getActiveStreamCount(): activeStreams.size
GetActiveStreamCount(st) ==
  Cardinality({sid \in StreamIds : st.activeStreams[sid] # NoSession})

\* the status GET /webrtc-bridge/:streamId/status answers with
GetStatus(sid) ==
  IF GetStreamInfo(Bridge, sid) = NoInfo THEN 404 ELSE 200

\* the count GET /webrtc-bridge/stats answers with
GetStats == GetActiveStreamCount(Bridge)

\* a handleIceCandidate that does not look the session up
HandleIceCandidateAnySession(st, wrtc, sid, added) ==
  IF ~ wrtc THEN [ret |-> FALSE, pc |-> 0]
  ELSE [ret |-> added, pc |-> st.activeStreams[sid].pc]

\* handleIceCandidate(sid, candidate): the value it returns, and the peer
\* connection addIceCandidate was called on (0 when the engine was not
\* called); added tells whether the engine accepts the candidate, and a
\* rejection is caught and turned into false
HandleIceCandidate(st, wrtc, sid, added) ==
  IF st.activeStreams[sid] = NoSession THEN [ret |-> FALSE, pc |-> 0]
  ELSE IF ~ wrtc THEN [ret |-> FALSE, pc |-> 0]
  ELSE LET p == st.activeStreams[sid].pc
       IN [ret |-> added /\ st.pcs[p].connectionState # "closed", pc |-> p]

\* POST /webrtc-bridge/:streamId/ice-candidate
PostIceCandidate(sid, candidate, added) ==
  /\ Responded
  /\ LET r == HandleIceCandidate(Bridge, wrtcAvailable, sid, added)
     IN last' = IF ~ candidate THEN Served("iceCandidate", sid, 400, 0)
                ELSE IF r.ret THEN Served("iceCandidate", sid, 200, r.pc)
                ELSE Served("iceCandidate", sid, 404, r.pc)
  /\ UNCHANGED bridgeVars
  /\ UNCHANGED <<relayVars, envVars>>

\* the response of the latest request is written
Respond ==
  /\ last # NoCall
  /\ last' = NoCall
  /\ UNCHANGED bridgeVars
  /\ UNCHANGED <<relayVars, envVars>>

Next ==
  \/ \E sid \in StreamIds : DeleteRoute(sid)
  \/ \E sid \in StreamIds : CleanupTwice(sid)
  \/ \E sid \in StreamIds, loads \in BOOLEAN :
       PostOffer(sid, StreamKeyOf(Len(pcs) + 1), "offer", loads)
  \/ Respond
  \/ \E p \in Calls, ok \in BOOLEAN : SetRemoteDescriptionSettled(p, ok)
  \/ \E p \in Calls, ok \in BOOLEAN : CreateAnswerSettled(p, ok)
  \/ \E p \in Calls, ok, complete \in BOOLEAN :
       SetLocalDescriptionSettled(p, ok, complete)
  \/ \E p \in Calls, complete \in BOOLEAN : IceGatheringStateChange(p, complete)
  \/ \E p \in Calls : IceTimeout(p)
  \/ \E p \in Calls, s \in {"connected", "disconnected", "failed"} :
       ConnectionStateChange(p, s)
  \/ \E p \in Calls : ClosedEvent(p)
  \/ \E p \in Calls, kind \in TrackKinds : EngineTrack(p, kind)
  \/ \E p \in Calls, i \in 1 .. MaxTracks : TrackEnded(p, i)
  \/ \E p \in Calls, code \in ExitCodes : FfmpegExit(p, code)

\* the bridge and its callbacks, with well-formed offer requests
Spec == Init /\ [][Next]_vars

\* the bridge and its callbacks with the 5000 ms timers of cleanupStream; a
\* timer changes nothing but the process it signals
NextKill ==
  \/ Next
  \/ \E q \in Calls : KillTimeout(q)

SpecKill == Init /\ [][NextKill]_vars

\* the bridge and its callbacks where a spawn may fail
NextSpawn ==
  \/ Next
  \/ \E p \in Calls : FfmpegError(p)

SpecSpawn == Init /\ [][NextSpawn]_vars

\* requests, negotiation and any sequence of up to MaxSdpTracks 'track'
\* events
NextTracks ==
  \/ \E p \in Calls, kind \in TrackKinds : EngineTrackRepeated(p, kind)
  \/ \E sid \in StreamIds :
       PostOffer(sid, StreamKeyOf(Len(pcs) + 1), "offer", TRUE)
  \/ \E sid \in StreamIds : DeleteRoute(sid)
  \/ Respond
  \/ \E p \in Calls : SetRemoteDescriptionSettled(p, TRUE)
  \/ \E p \in Calls : CreateAnswerSettled(p, TRUE)
  \/ \E p \in Calls, complete \in BOOLEAN :
       SetLocalDescriptionSettled(p, TRUE, complete)
  \/ \E p \in Calls : IceGatheringStateChange(p, TRUE)

SpecTracks == Init /\ [][NextTracks]_vars

NextCandidates ==
  \/ \E p \in Calls, candidate \in 0 .. MaxCandidates :
       IceCandidate(p, candidate)
  \/ \E sid \in StreamIds :
       PostOffer(sid, StreamKeyOf(Len(pcs) + 1), "offer", TRUE)
  \/ \E sid \in StreamIds : DeleteRoute(sid)
  \/ Respond
  \/ \E p \in Calls, ok \in BOOLEAN : SetRemoteDescriptionSettled(p, ok)
  \/ \E p \in Calls, ok \in BOOLEAN : CreateAnswerSettled(p, ok)
  \/ \E p \in Calls, ok, complete \in BOOLEAN :
       SetLocalDescriptionSettled(p, ok, complete)
  \/ \E p \in Calls, complete \in BOOLEAN : IceGatheringStateChange(p, complete)
  \/ \E p \in Calls : IceTimeout(p)

\* requests and negotiation with the candidates the engine gathers
SpecCandidates == Init /\ [][NextCandidates]_vars

NextFaults ==
  \/ \E sid \in StreamIds, raised \in SUBSET ReleaseSteps :
       DeleteRouteRaising(sid, raised)
  \/ \E sid \in StreamIds : DeleteRoute(sid)
  \/ \E sid \in StreamIds :
       PostOffer(sid, StreamKeyOf(Len(pcs) + 1), "offer", TRUE)
  \/ Respond
  \/ \E p \in Calls, ok \in BOOLEAN : SetRemoteDescriptionSettled(p, ok)
  \/ \E p \in Calls, ok \in BOOLEAN : CreateAnswerSettled(p, ok)
  \/ \E p \in Calls, ok, complete \in BOOLEAN :
       SetLocalDescriptionSettled(p, ok, complete)
  \/ \E p \in Calls, complete \in BOOLEAN : IceGatheringStateChange(p, complete)
  \/ \E p \in Calls : IceTimeout(p)
  \/ \E p \in Calls, kind \in TrackKinds : EngineTrack(p, kind)
  \/ \E p \in Calls, i \in 1 .. MaxTracks : TrackEnded(p, i)
  \/ \E p \in Calls, code \in ExitCodes : FfmpegExit(p, code)

\* requests, negotiation and media events of the bridge, with release
\* steps that raise
SpecFaults == Init /\ [][NextFaults]_vars

NextRoutes ==
  \/ \E sid \in StreamIds, key \in 0 .. MaxCalls, offer \in Offers,
        loads \in BOOLEAN :
       PostOffer(sid, key, offer, loads)
  \/ \E sid \in StreamIds, candidate, added \in BOOLEAN :
       PostIceCandidate(sid, candidate, added)
  \/ \E sid \in StreamIds : DeleteRoute(sid)
  \/ Respond
  \/ \E p \in Calls, ok \in BOOLEAN : SetRemoteDescriptionSettled(p, ok)
  \/ \E p \in Calls, ok \in BOOLEAN : CreateAnswerSettled(p, ok)
  \/ \E p \in Calls, ok, complete \in BOOLEAN :
       SetLocalDescriptionSettled(p, ok, complete)
  \/ \E p \in Calls, complete \in BOOLEAN : IceGatheringStateChange(p, complete)
  \/ \E p \in Calls : IceTimeout(p)
  \/ \E p \in Calls, s \in {"connected", "disconnected", "failed"} :
       ConnectionStateChange(p, s)
  \/ \E p \in Calls : ClosedEvent(p)

\* the HTTP routes of the bridge with every kind of request, and the
\* engine's negotiation and connection events, without media
SpecRoutes == Init /\ [][NextRoutes]_vars

\* the bridge where a timer that is set and stays pending fires
SpecTimers ==
  Spec /\ \A p \in 1 .. MaxCalls : WF_vars(p \in Calls /\ IceTimeout(p))

(***************************************************************************)
(* Properties of the bridge                                                *)
(***************************************************************************)
\* the session registered under sid holds peer connection p
Owns(sid, p) == activeStreams[sid] # NoSession /\ activeStreams[sid].pc = p

\* what one teardown of the session under sid does to the bridge, and
\* what a call without a session does: nothing
OneTeardown(sid) ==
  LET info == activeStreams[sid]
      stored == {info.audioTrack, info.videoTrack}
  IN IF info = NoSession THEN UNCHANGED bridgeVars
     ELSE /\ activeStreams' = [activeStreams EXCEPT ![sid] = NoSession]
          /\ cleaned' = [cleaned EXCEPT ![sid] = @ + 1]
          /\ \A p \in Calls :
               /\ pcs'[p].closeCalls =
                    pcs[p].closeCalls + (IF p = info.pc THEN 1 ELSE 0)
               /\ ffmpegs'[p].sigterm =
                    ffmpegs[p].sigterm + (IF p = info.ffmpeg THEN 1 ELSE 0)
               /\ \A i \in 1 .. Len(tracks[p]) :
                    tracks'[p][i].stops =
                      tracks[p][i].stops + (IF <<p, i>> \in stored THEN 1 ELSE 0)

\* C1: cleanupStream(sid) called twice in immediate succession tears the
\* session down exactly once (one close, one signal, one stop per stored
\* track, one 'stream-cleaned'), and changes nothing when no session is
\* registered under sid
C1_CleanupTwiceTearsDownOnce ==
  [][\A sid \in StreamIds : CleanupTwice(sid) => OneTeardown(sid)]_vars

\* a double cleanup has just torn down a session that had a process and a
\* stored track
C1_Witness ==
  /\ last.op = "cleanupTwice"
  /\ cleaned[last.sid] = 1
  /\ \E p \in Calls :
       /\ pcs[p].sid = last.sid
       /\ pcs[p].closeCalls = 1
       /\ ffmpegs[p].sigterm = 1
       /\ \E i \in 1 .. Len(tracks[p]) : tracks[p][i].stops = 1

\* C2: a registered session has a transcoding process started exactly when
\* it has observed both an audio and a video track
C2_ProcessIffBothTracks ==
  \A sid \in StreamIds :
    activeStreams[sid] # NoSession =>
      (ffmpegs[activeStreams[sid].pc].state # "none"
         <=> /\ activeStreams[sid].audioTrack # NoTrack
             /\ activeStreams[sid].videoTrack # NoTrack)

\* C3: once the process of call p has exited with a code other than 0 and
\* null and its exit handler has run, the session that owns it (the one
\* holding the peer connection of call p) is not in the registry
C3_CrashRemovesSession ==
  \A p \in Calls :
    (ffmpegs[p].state = "exited" /\ ffmpegs[p].crashed) =>
      \A sid \in StreamIds : ~ Owns(sid, p)

\* a process has crashed before any track arrived, and its session was
\* cleaned up
C3_Witness ==
  \E p \in Calls :
    /\ ffmpegs[p].state = "exited"
    /\ ffmpegs[p].crashed
    /\ tracks[p] = << >>
    /\ pcs[p].closeCalls = 1
    /\ cleaned[pcs[p].sid] = 1

\* C4: a handleOffer that waits for ICE gathering returns: the wait ends
\* when gathering completes or, at the latest, when the timer fires
C4_IceWaitCompletes ==
  \A p \in 1 .. MaxCalls :
    (p \in Calls /\ pcs[p].pos = "iceWait")
      ~> (p \in Calls /\ pcs[p].pos = "returned")

\* a handleOffer has returned although its peer connection failed during the
\* ICE wait (nothing but the wait ended, no track arrived)
C4_Witness ==
  \E p \in Calls :
    /\ pcs[p].pos = "returned"
    /\ pcs[p].connectionState = "failed"
    /\ pcs[p].closeCalls = 0

\* C7: the peer connection of a handleOffer that returned stays owned by a
\* registered session for as long as it is open, also when a second
\* handleOffer for the same streamId returns
C7_NoOrphanedPeerConnection ==
  \A p \in Calls :
    (pcs[p].pos = "returned" /\ pcs[p].closeCalls = 0) =>
      \E sid \in StreamIds : Owns(sid, p)

\* C8: when cleanupStream closes a peer connection, the session is no
\* longer in the registry
C8_RemovedBeforeRelease ==
  \A p \in Calls : pcs[p].closeCalls > 0 => ~ pcs[p].heldAtClose

\* C9: a handleOffer that returns leaves the registry holding, under its
\* streamId, a session with its peer connection and its streamKey; until the
\* return, and when it throws, no session with its peer connection is
\* registered
C9_RegisteredOnReturn ==
  /\ [](\A p \in Calls :
          pcs[p].pos # "returned" => \A sid \in StreamIds : ~ Owns(sid, p))
  /\ [][\A p \in Calls :
          (pcs[p].pos # "returned" /\ pcs'[p].pos = "returned") =>
            /\ activeStreams'[pcs[p].sid].pc = p
            /\ activeStreams'[pcs[p].sid].streamKey = pcs[p].key]_vars

\* a second handleOffer has returned, registered with its own peer connection
\* and key, while another handleOffer has thrown
C9_Witness ==
  \E p, q \in Calls :
    /\ pcs[p].pos = "returned"
    /\ Owns(pcs[p].sid, p)
    /\ activeStreams[pcs[p].sid].streamKey = StreamKeyOf(p)
    /\ pcs[q].pos = "threw"

\* C10: no registered session holds a peer connection whose state is
\* failed, disconnected or closed
C10_NoDeadConnectionRegistered ==
  \A sid \in StreamIds :
    activeStreams[sid] # NoSession =>
      pcs[activeStreams[sid].pc].connectionState
        \notin {"failed", "disconnected", "closed"}

\* C11: a registered session has stored a track of every kind that the
\* engine has raised on its peer connection since the connection was created
C11_EveryTrackStored ==
  \A sid \in StreamIds :
    activeStreams[sid] # NoSession =>
      \A i \in 1 .. Len(tracks[activeStreams[sid].pc]) :
        LET kind == tracks[activeStreams[sid].pc][i].kind
        IN /\ kind = "audio" => activeStreams[sid].audioTrack # NoTrack
           /\ kind = "video" => activeStreams[sid].videoTrack # NoTrack

\* the status an offer request is refused with, 0 when it is not refused:
\* 400 for an empty streamKey or an offer without type or sdp, 500 when the
\* engine cannot be loaded
Refusal(key, offer, loads) ==
  IF key = 0 \/ offer # "offer" THEN 400
  ELSE IF ~ (wrtcAvailable \/ loads) THEN 500
  ELSE 0

\* C20: an offer request with an empty streamKey, with an offer that lacks
\* its type or its sdp, or made while the engine cannot be loaded is
\* answered 400, 400 and 500, and changes nothing in the bridge (no peer
\* connection, no process, no session) nor in the signaling registries
C20_RefusedOfferHasNoEffect ==
  [][\A sid \in StreamIds, key \in 0 .. MaxCalls, offer \in Offers,
        loads \in BOOLEAN :
       (Refusal(key, offer, loads) # 0 /\ PostOffer(sid, key, offer, loads))
         => /\ last'.op = "offer"
            /\ last'.res = Refusal(key, offer, loads)
            /\ UNCHANGED <<bridgeVars, relayVars>>]_vars

\* an offer without a streamKey has just been refused while a session is
\* registered and another handleOffer is in progress
C20_Witness ==
  /\ last.op = "offer"
  /\ last.res = 400
  /\ \E sid \in StreamIds : activeStreams[sid] # NoSession
  /\ \E p \in Calls : pcs[p].pos = "iceWait"

\* C17: DELETE answers 200 whether or not the stream has a session; in the
\* state it leaves, the status query of that stream answers 404 and the
\* stats count is the number of the other streams' sessions; and a session
\* appears under a stream that has none only when a handleOffer for that
\* stream returns
C17_DeleteThenAbsent ==
  /\ [](last.op = "delete"
          => /\ last.res = 200
             /\ GetStatus(last.sid) = 404
             /\ GetStats =
                  Cardinality({sid \in StreamIds \ {last.sid} :
                                 activeStreams[sid] # NoSession}))
  /\ [][\A sid \in StreamIds :
         (GetStatus(sid) = 404 /\ GetStatus(sid)' # 404)
           => \E p \in Calls :
                /\ pcs[p].sid = sid
                /\ pcs[p].pos # "returned"
                /\ pcs'[p].pos = "returned"]_vars

\* a DELETE has just been answered for a stream whose session has been
\* cleaned up, while the other stream keeps its session
C17_Witness ==
  /\ last.op = "delete"
  /\ cleaned[last.sid] > 0
  /\ GetStats = 1

\* C18: when release steps of a cleanupStream raise, every step whose
\* resource the session holds is still made (the steps that do not raise
\* with their effect), the session is removed from the registry and
\* 'stream-cleaned' is emitted
C18_ReleaseStepsIndependent ==
  [][last'.raised # {}
       => LET sid == last'.sid
              info == activeStreams[sid]
              raised == last'.raised
          IN /\ activeStreams'[sid] = NoSession
             /\ cleaned'[sid] = cleaned[sid] + 1
             /\ info.pc # 0
                  => /\ pcs'[info.pc].closeCalls = pcs[info.pc].closeCalls + 1
                     /\ "close" \notin raised
                          => pcs'[info.pc].connectionState = "closed"
             /\ info.ffmpeg # 0
                  => /\ ffmpegs'[info.ffmpeg].sigterm =
                          ffmpegs[info.ffmpeg].sigterm + 1
                     /\ "kill" \notin raised
                          => ffmpegs'[info.ffmpeg].timers =
                               ffmpegs[info.ffmpeg].timers + 1
             /\ \A t \in {info.audioTrack, info.videoTrack} \ {NoTrack} :
                  tracks'[t[1]][t[2]].stops = tracks[t[1]][t[2]].stops + 1
            ]_vars

\* pc.close() and kill('SIGTERM') have just raised in the cleanup of a
\* session with a track: the track was stopped all the same and
\* 'stream-cleaned' emitted
C18_Witness ==
  /\ last.raised = {"close", "kill"}
  /\ cleaned[last.sid] > 0
  /\ \E p \in Calls :
       /\ pcs[p].sid = last.sid
       /\ pcs[p].closeCalls > 0
       /\ pcs[p].connectionState # "closed"
       /\ \E i \in 1 .. Len(tracks[p]) : tracks[p][i].stops > 0

\* C19: a process that was sent SIGTERM and is still running when the
\* 5000 ms timer of that cleanup has fired has been sent SIGKILL
C19_KillEscalates ==
  \A q \in Calls :
    (/\ ffmpegs[q].killed
     /\ ffmpegs[q].timers = 0
     /\ ffmpegs[q].state = "running")
      => ffmpegs[q].sigkill > 0

\* a track of the kind has been raised on peer connection p
Arrived(p, kind) == \E i \in 1 .. Len(tracks[p]) : tracks[p][i].kind = kind

\* C23: for a registered session, the status query reports hasAudio,
\* hasVideo and a running pipeline once an audio and a video track have
\* arrived on its peer connection, and reports a kind as absent as long as
\* no track of that kind has arrived on it
C23_StatusFollowsTracks ==
  \A sid \in StreamIds :
    activeStreams[sid] # NoSession =>
      LET p == activeStreams[sid].pc
          status == GetStreamInfo(Bridge, sid)
      IN /\ (Arrived(p, "audio") /\ Arrived(p, "video"))
              => (status.hasAudio /\ status.hasVideo /\ status.ffmpegRunning)
         /\ ~ Arrived(p, "audio") => ~ status.hasAudio
         /\ ~ Arrived(p, "video") => ~ status.hasVideo

\* the candidates among the events, in their order
Candidates(events) == SelectSeq(events, LAMBDA c : c # NoCandidate)

\* C24: when a handleOffer returns, the iceCandidates of its result are the
\* candidates the engine has raised on its own peer connection since its
\* creation, each once and in the order raised, without an entry for the
\* end of gathering; the list of a result does not change afterwards
C24_GatheredCandidatesReturned ==
  [][\A p \in Calls :
       /\ (pcs[p].pos # "returned" /\ pcs'[p].pos = "returned")
            => pcs'[p].result = Candidates(pcs[p].emitted)
       /\ pcs[p].pos = "returned" => pcs'[p].result = pcs[p].result]_vars

\* a handleOffer has returned the one candidate raised on its peer
\* connection, after the end of gathering, while another peer connection
\* has a candidate of its own
C24_Witness ==
  \E p, q \in Calls :
    /\ p # q
    /\ pcs[p].pos = "returned"
    /\ Len(pcs[p].emitted) = 2
    /\ pcs[p].emitted[1] = NoCandidate
    /\ pcs[p].result = <<pcs[p].emitted[2]>>
    /\ Candidates(pcs[q].emitted) # << >>

\* C25: once cleanupStream has torn down the session of a handleOffer call
\* (its peer connection has been closed by a cleanup), the process spawned
\* for that call is not left running without having been sent SIGTERM
C25_SpawnedProcessSignalled ==
  \A p \in Calls :
    (/\ pcs[p].pos = "returned"
     /\ pcs[p].closeCalls > 0
     /\ ffmpegs[p].state = "running")
      => ffmpegs[p].killed

\* C26: the exit of a process with code 0 or null leaves the registry with
\* the fields of every session, the peer connections, the tracks and the
\* 'stream-cleaned' notifications as they were
C26_GracefulExitKeepsSession ==
  /\ [](Responded =>
          \A sid \in StreamIds, code \in {"zero", "null"} :
            OnFfmpegClose(Bridge, sid, code) = Bridge)
  /\ [][\A p \in Calls :
         (/\ ffmpegs[p].state = "running"
          /\ ffmpegs'[p].state = "exited"
          /\ ~ ffmpegs'[p].crashed)
           => UNCHANGED <<activeStreams, pcs, tracks, cleaned>>]_vars

\* a process has exited with code 0 or null and the session that holds it
\* is registered still, its peer connection open
C26_Witness ==
  \E p \in Calls :
    /\ ffmpegs[p].state = "exited"
    /\ ~ ffmpegs[p].crashed
    /\ activeStreams[pcs[p].sid].pc = p
    /\ activeStreams[pcs[p].sid].ffmpeg = p
    /\ pcs[p].closeCalls = 0

\* C27: the 'error' listener does to the bridge what the 'close' listener
\* does on a crash, and once the spawn of call p has failed and the listener
\* has run no session holds the peer connection of call p, that connection
\* is closed, no track of it is left stored and unstopped, and the step
\* that delivered the error emitted 'stream-cleaned' for the streamId
C27_SpawnFailureCleansUp ==
  /\ [](Responded =>
          \A sid \in StreamIds :
            OnFfmpegError(Bridge, sid) = OnFfmpegClose(Bridge, sid, "nonzero"))
  /\ [](\A p \in Calls :
          ffmpegs[p].state = "failed" =>
            /\ \A sid \in StreamIds : ~ Owns(sid, p)
            /\ pcs[p].connectionState = "closed"
            /\ pcs[p].closeCalls >= 1
            /\ \A i \in 1 .. Len(tracks[p]) :
                 tracks[p][i].onended => tracks[p][i].stops >= 1)
  /\ [][\A p \in Calls :
         (ffmpegs[p].state # "failed" /\ ffmpegs'[p].state = "failed")
           => /\ cleaned'[pcs[p].sid] = cleaned[pcs[p].sid] + 1
              /\ pcs'[p].closeCalls = pcs[p].closeCalls + 1]_vars

\* the spawn of a call has failed while an earlier session was registered
\* under the same streamId: the session of the call is gone, its connection
\* closed once and 'stream-cleaned' emitted once
C27_Witness ==
  \E p, q \in Calls :
    /\ q < p
    /\ pcs[q].sid = pcs[p].sid
    /\ pcs[q].pos = "returned"
    /\ ffmpegs[p].state = "failed"
    /\ pcs[p].closeCalls = 1
    /\ cleaned[pcs[p].sid] = 1
    /\ activeStreams[pcs[p].sid] = NoSession

\* C28: createSDPForFFmpeg is called at most once for a registered session,
\* sdpCreated is set exactly when it was called, only a session with both
\* an audio and a video track has it set, and while the session stays
\* registered sdpCreated, once set, stays set
C28_SdpCreatedOnce ==
  /\ [](\A sid \in StreamIds :
          LET info == activeStreams[sid]
          IN info # NoSession =>
               /\ info.sdps <= 1
               /\ info.sdpCreated <=> info.sdps = 1
               /\ info.sdpCreated =>
                    info.audioTrack # NoTrack /\ info.videoTrack # NoTrack)
  /\ [][\A sid \in StreamIds :
         (/\ activeStreams[sid].sdpCreated
          /\ activeStreams'[sid] # NoSession
          /\ activeStreams'[sid].pc = activeStreams[sid].pc)
           => activeStreams'[sid].sdpCreated]_vars

\* a session got two tracks of one kind, then one of the other kind, then a
\* fourth track, all stored, and createSDPForFFmpeg was called once
C28_Witness ==
  \E sid \in StreamIds :
    LET info == activeStreams[sid]
        p == info.pc
    IN /\ info # NoSession
       /\ info.sdps = 1
       /\ Len(tracks[p]) = MaxSdpTracks
       /\ \A i \in 1 .. MaxSdpTracks : tracks[p][i].onended
       /\ tracks[p][1].kind = tracks[p][2].kind
       /\ tracks[p][3].kind # tracks[p][1].kind

\* C29: a connection-state change, a 'closed' event, a track end or a
\* process exit of call p leaves every session registered by a later call
\* as it is
C29_TriggersScoped ==
  [][\A p \in Calls :
       (\/ \E s \in {"connected", "disconnected", "failed"} :
             ConnectionStateChange(p, s)
        \/ ClosedEvent(p)
        \/ \E i \in 1 .. MaxTracks : TrackEnded(p, i)
        \/ \E code \in ExitCodes : FfmpegExit(p, code))
         => \A sid \in StreamIds :
              (activeStreams[sid] # NoSession /\ activeStreams[sid].pc > p)
                => activeStreams'[sid] = activeStreams[sid]]_vars

\* C31: when track i of call p ends while it is stored on the session
\* registered under its streamId, the handler removes that session, closes
\* the session's peer connection and sends SIGTERM to the process spawned
\* for the session; when the session of call p is no longer registered
\* the handler changes nothing in the registry, the connections, the
\* processes and the emissions
C31_TrackEndTearsDown ==
  [][\A p \in Calls :
       \A i \in 1 .. MaxTracks :
         TrackEnded(p, i) =>
           LET sid == pcs[p].sid
               info == activeStreams[sid]
           IN IF info # NoSession
                   /\ <<p, i>> \in {info.audioTrack, info.videoTrack}
              THEN /\ activeStreams'[sid] = NoSession
                   /\ pcs'[info.pc].connectionState = "closed"
                   /\ pcs'[info.pc].closeCalls = pcs[info.pc].closeCalls + 1
                   /\ ffmpegs'[info.pc].sigterm
                        = ffmpegs[info.pc].sigterm + 1
              ELSE (\A s \in StreamIds : ~ Owns(s, p))
                     => UNCHANGED <<activeStreams, pcs, ffmpegs, cleaned>>]_vars

\* C32: once the handleOffer of call p has thrown out of its negotiation
\* (setRemoteDescription, createAnswer or setLocalDescription rejected), no
\* session holds its peer connection, no process was spawned for it, and
\* its peer connection is closed
C32_FailedOfferLeavesNothing ==
  \A p \in Calls :
    pcs[p].pos = "threw" =>
      /\ \A sid \in StreamIds : ~ Owns(sid, p)
      /\ ffmpegs[p].state = "none"
      /\ pcs[p].closeCalls >= 1
      /\ pcs[p].connectionState = "closed"

\* C12: handleIceCandidate never raises (the route answers 200, 404 or
\* 400, never 500); it returns false without calling the engine when the
\* stream has no session or the engine is unavailable; it returns true
\* exactly when the engine added the candidate to the session's own peer
\* connection; and it leaves the registry and every session field as
\* they were
C12_IceCandidateOutcome ==
  /\ [](Responded =>
          \A sid \in StreamIds, added \in BOOLEAN :
            LET r == HandleIceCandidate(Bridge, wrtcAvailable, sid, added)
            IN /\ (activeStreams[sid] = NoSession \/ ~ wrtcAvailable)
                    => (~ r.ret /\ r.pc = 0)
               /\ r.ret <=> /\ added
                            /\ activeStreams[sid] # NoSession
                            /\ r.pc = activeStreams[sid].pc
                            /\ pcs[r.pc].connectionState # "closed")
  /\ [][last'.op = "iceCandidate"
         => /\ last'.res \in {200, 404, 400}
            /\ last'.res = 200 => last'.pc = activeStreams[last'.sid].pc
            /\ UNCHANGED bridgeVars]_vars

\* a candidate has just been added to the peer connection of a registered
\* session
C12_Witness ==
  /\ last.op = "iceCandidate"
  /\ last.res = 200
  /\ last.pc \in Calls
  /\ activeStreams[last.sid].pc = last.pc

(***************************************************************************)
(* The signaling relay (src/server.js, io.on('connection', ...))           *)
(***************************************************************************)
\* a message as a connection receives it
Msg(to, ev, who, what) == [to |-> to, ev |-> ev, who |-> who, what |-> what]

\* Map.get on users: the record of socket c, or NoUser
NoUser == [socketId |-> "", roomId |-> "", userId |-> "", userType |-> ""]

UserIndex(us, c) ==
  IF \E i \in 1 .. Len(us) : us[i].socketId = c
  THEN CHOOSE i \in 1 .. Len(us) : us[i].socketId = c
  ELSE 0

UsersGet(us, c) == IF UserIndex(us, c) = 0 THEN NoUser ELSE us[UserIndex(us, c)]

\* Map.set on users: an existing key keeps its place
UsersSet(us, c, rec) ==
  IF UserIndex(us, c) = 0 THEN Append(us, rec)
  ELSE [us EXCEPT ![UserIndex(us, c)] = rec]

\* the sequence without its i-th element (Array.splice(i, 1))
RemoveAt(seq, i) ==
  [j \in 1 .. Len(seq) - 1 |-> IF j < i THEN seq[j] ELSE seq[j + 1]]

\* Map.delete on users
UsersDelete(us, c) ==
  IF UserIndex(us, c) = 0 THEN us ELSE RemoveAt(us, UserIndex(us, c))

\* a lookup by room alone
FindTargetInRoom(us, targetUserId, roomId) ==
  LET hits == {i \in 1 .. Len(us) : us[i].roomId = roomId}
  IN IF hits = {} THEN ""
     ELSE us[CHOOSE i \in hits : \A j \in hits : i <= j].socketId

\* Array.from(users.entries()).find(...): the socket of the first user
\* registered with (targetUserId, roomId), or ""
FindTarget(us, targetUserId, roomId) ==
  LET hits == {i \in 1 .. Len(us) :
                 us[i].userId = targetUserId /\ us[i].roomId = roomId}
  IN IF hits = {} THEN ""
     ELSE us[CHOOSE i \in hits : \A j \in hits : i <= j].socketId

\* room.findIndex(u => u.socketId === c), 0 for -1
EntryIndex(room, c) ==
  LET hits == {i \in 1 .. Len(room) : room[i].socketId = c}
  IN IF hits = {} THEN 0 ELSE CHOOSE i \in hits : \A j \in hits : i <= j

\* the list without the first entry of socket c
RemoveEntry(room, c) ==
  IF EntryIndex(room, c) = 0 THEN room ELSE RemoveAt(room, EntryIndex(room, c))

\* socket.to(roomId).emit(...) from c: every other connection in the
\* socket.io room
Broadcast(jn, c, roomId, ev, who, what) ==
  SetToBag({Msg(d, ev, who, what) : d \in {d \in Conns \ {c} : roomId \in jn[d]}})

\* io.to(socketId).emit(...)
Unicast(to, ev, who, what) == SetToBag({Msg(to, ev, who, what)})

\* the entries of all participant lists
RECURSIVE EntriesOf(_, _)
EntriesOf(rs, keys) ==
  IF keys = {} THEN 0
  ELSE LET r == CHOOSE r \in keys : TRUE
       IN Len(rs[r]) + EntriesOf(rs, keys \ {r})

Entries == EntriesOf(rooms, DOMAIN rooms)

\* a handler runs as one task; what the task before it emitted is on the
\* wire by then
Transmitted == sent = NoneSent

\* the transports take the emitted messages
Transmit ==
  /\ sent # NoneSent
  /\ sent' = NoneSent
  /\ UNCHANGED <<sockets, users, rooms, joined, uncaught>>
  /\ UNCHANGED <<bridgeVars, last, envVars>>

\* the state a handler leaves and the messages it emits
Outcome(us, rs, jn, out) ==
  [users |-> us, rooms |-> rs, joined |-> jn, sent |-> out]

\* a handler's outcome becomes the state
SetRelay(o) ==
  /\ users' = o.users
  /\ rooms' = o.rooms
  /\ joined' = o.joined
  /\ sent' = o.sent

\* the 'join-room' handler past its validation: socket.join, users.set,
\* room.push, 'user-joined' to the socket.io room, 'room-users' and the
\* acknowledgment to c
JoinRoomAccepted(us, rs, jn, c, roomId, userId, userType) ==
  LET room == IF roomId \in DOMAIN rs THEN rs[roomId] ELSE << >>
      entry == [socketId |-> c, userId |-> userId, userType |-> userType]
      room2 == Append(room, entry)
      jn2 == [jn EXCEPT ![c] = @ \cup {roomId}]
      existingUsers == SelectSeq(room2, LAMBDA u : u.socketId # c)
  IN Outcome(UsersSet(us, c, [socketId |-> c, roomId |-> roomId,
                              userId |-> userId, userType |-> userType]),
             [r \in DOMAIN rs \cup {roomId} |->
                IF r = roomId THEN room2 ELSE rs[r]],
             jn2,
             Broadcast(jn2, c, roomId, "user-joined", userId, <<userType>>)
             (+) Unicast(c, "room-users", "", existingUsers)
             (+) Unicast(c, "ack", userId, <<"success", roomId>>))

\* a join-room that enters the socket.io room before it looks at the fields
JoinRoomOutcomeJoinsFirst(us, rs, jn, c, roomId, userId, userType) ==
  IF roomId = "" \/ userId = "" \/ userType = ""
  THEN Outcome(us, rs, [jn EXCEPT ![c] = @ \cup {roomId}],
               Unicast(c, "ack", "", <<"error">>))
  ELSE JoinRoomAccepted(us, rs, jn, c, roomId, userId, userType)

\* the 'join-room' handler for a message of socket c, the acknowledgment
\* callback given: an error acknowledgment when a field is empty or missing
JoinRoomOutcome(us, rs, jn, c, roomId, userId, userType) ==
  IF roomId = "" \/ userId = "" \/ userType = ""
  THEN Outcome(us, rs, jn, Unicast(c, "ack", "", <<"error">>))
  ELSE JoinRoomAccepted(us, rs, jn, c, roomId, userId, userType)

\* socket.on('join-room')
JoinRoom(c, roomId, userId, userType) ==
  /\ Transmitted
  /\ ~ uncaught
  /\ sockets[c] = "connected"
  /\ (roomId # "" /\ userId # "" /\ userType # "") => Entries < MaxEntries
  /\ SetRelay(JoinRoomOutcome(users, rooms, joined, c, roomId, userId,
                              userType))
  /\ UNCHANGED <<sockets, uncaught>>
  /\ UNCHANGED <<bridgeVars, last, envVars>>

\* what the 'offer', 'answer' and 'ice-candidate' handlers emit for a message
\* from socket c, the users being us
RelayEmits(us, kind, c, targetUserId, roomId, payload) ==
  LET sender == UsersGet(us, c)
      target == FindTarget(us, targetUserId, roomId)
  IN IF sender = NoUser \/ target = "" THEN NoneSent
     ELSE Unicast(target, kind, sender.userId, <<payload>>)

\* socket.on('offer' | 'answer' | 'ice-candidate')
Relay(kind, c, targetUserId, roomId, payload) ==
  /\ Transmitted
  /\ ~ uncaught
  /\ sockets[c] = "connected"
  /\ sent' = RelayEmits(users, kind, c, targetUserId, roomId, payload)
  /\ UNCHANGED <<sockets, users, rooms, joined, uncaught>>
  /\ UNCHANGED <<bridgeVars, last, envVars>>

\* a 'peer-connection-state' relay that trusts the userId of the message
PeerConnectionStateEmitsAsSent(us, c, userId, targetUserId, roomId, payload) ==
  LET sender == UsersGet(us, c)
      target == FindTarget(us, targetUserId, roomId)
  IN IF sender = NoUser \/ target = "" THEN NoneSent
     ELSE Unicast(target, "peer-connection-state", userId,
                  <<targetUserId, payload>>)

\* what the 'peer-connection-state' handler emits: the userId of the
\* message is replaced by the sender's
PeerConnectionStateEmits(us, c, userId, targetUserId, roomId, payload) ==
  LET sender == UsersGet(us, c)
      target == FindTarget(us, targetUserId, roomId)
  IN IF sender = NoUser \/ target = "" THEN NoneSent
     ELSE Unicast(target, "peer-connection-state", sender.userId,
                  <<targetUserId, payload>>)

\* socket.on('peer-connection-state')
PeerConnectionState(c, userId, targetUserId, roomId, payload) ==
  /\ Transmitted
  /\ ~ uncaught
  /\ sockets[c] = "connected"
  /\ sent' = PeerConnectionStateEmits(users, c, userId, targetUserId, roomId,
                                      payload)
  /\ UNCHANGED <<sockets, users, rooms, joined, uncaught>>
  /\ UNCHANGED <<bridgeVars, last, envVars>>

\* what the 'stream-type' handler does for a message of socket c: the
\* userId is read off users.get(socket.id) unchecked, which raises a
\* TypeError for a socket without a record, before anything is emitted
StreamTypeOutcome(us, jn, c, roomId, streamType) ==
  LET sender == UsersGet(us, c)
  IN IF sender = NoUser THEN [sent |-> NoneSent, raises |-> TRUE]
     ELSE [sent |-> Broadcast(jn, c, roomId, "stream-type-changed",
                              sender.userId, <<streamType>>),
           raises |-> FALSE]

\* socket.on('stream-type'); an exception that leaves the handler is caught
\* by nobody and ends the process
StreamType(c, roomId, streamType) ==
  /\ Transmitted
  /\ ~ uncaught
  /\ sockets[c] = "connected"
  /\ LET o == StreamTypeOutcome(users, joined, c, roomId, streamType)
     IN /\ sent' = o.sent
        /\ uncaught' = o.raises
  /\ UNCHANGED <<sockets, users, rooms, joined>>
  /\ UNCHANGED <<bridgeVars, last, envVars>>

\* the 'leave-room' handler for a message of socket c: socket.leave, then,
\* for a socket with a record, the entry leaves the list of the room the
\* message names, 'user-left' goes to that socket.io room and the record
\* is deleted
LeaveRoomOutcome(us, rs, jn, c, roomId) ==
  LET user == UsersGet(us, c)
      jn2 == [jn EXCEPT ![c] = @ \ {roomId}]
  IN IF user = NoUser THEN Outcome(us, rs, jn2, NoneSent)
     ELSE Outcome(UsersDelete(us, c),
                  IF roomId \in DOMAIN rs
                  THEN [rs EXCEPT ![roomId] = RemoveEntry(@, c)]
                  ELSE rs,
                  jn2,
                  Broadcast(jn2, c, roomId, "user-left", user.userId, << >>))

\* socket.on('leave-room')
LeaveRoom(c, roomId) ==
  /\ Transmitted
  /\ ~ uncaught
  /\ sockets[c] = "connected"
  /\ SetRelay(LeaveRoomOutcome(users, rooms, joined, c, roomId))
  /\ UNCHANGED <<sockets, uncaught>>
  /\ UNCHANGED <<bridgeVars, last, envVars>>

\* the 'disconnect' handler of socket c, socket.io having taken the socket
\* out of its rooms: for a socket with a record, the entry leaves the list
\* of the room of the record, 'user-left' goes to that socket.io room and
\* the record is deleted
DisconnectOutcome(us, rs, jn, c) ==
  LET user == UsersGet(us, c)
      jn2 == [jn EXCEPT ![c] = {}]
  IN IF user = NoUser THEN Outcome(us, rs, jn2, NoneSent)
     ELSE Outcome(UsersDelete(us, c),
                  IF user.roomId \in DOMAIN rs
                  THEN [rs EXCEPT ![user.roomId] = RemoveEntry(@, c)]
                  ELSE rs,
                  jn2,
                  IF user.roomId \in DOMAIN rs
                  THEN Broadcast(jn2, c, user.roomId, "user-left",
                                 user.userId, << >>)
                  ELSE NoneSent)

\* socket.on('disconnect')
Disconnect(c) ==
  /\ Transmitted
  /\ ~ uncaught
  /\ sockets[c] = "connected"
  /\ sockets' = [sockets EXCEPT ![c] = "gone"]
  /\ SetRelay(DisconnectOutcome(users, rooms, joined, c))
  /\ UNCHANGED uncaught
  /\ UNCHANGED <<bridgeVars, last, envVars>>

NextRelay ==
  \/ \E c \in Conns, r \in RoomIds \cup {""}, u \in UserIds \cup {""} :
       \E t \in {UserTypeOf(u), ""} : JoinRoom(c, r, u, t)
  \/ \E kind \in RelayKinds, c \in Conns, u \in UserIds, r \in RoomIds,
        x \in Payloads : Relay(kind, c, u, r, x)
  \/ \E c \in Conns, v \in UserIds, u \in UserIds, r \in RoomIds,
        x \in Payloads : PeerConnectionState(c, v, u, r, x)
  \/ \E c \in Conns, r \in RoomIds, x \in Payloads : StreamType(c, r, x)
  \/ \E c \in Conns, r \in RoomIds : LeaveRoom(c, r)
  \/ \E c \in Conns : Disconnect(c)
  \/ Transmit

\* the signaling handlers
SpecRelay == Init /\ [][NextRelay]_vars

(***************************************************************************)
(* Properties of the signaling relay                                       *)
(***************************************************************************)
\* the connections registered with (userId, roomId)
Registered(userId, roomId) ==
  {users[i].socketId : i \in {i \in 1 .. Len(users) :
                                 users[i].userId = userId
                                 /\ users[i].roomId = roomId}}

\* the entries of socket c in a participant list
EntriesFor(room, c) == Len(SelectSeq(room, LAMBDA u : u.socketId = c))

\* C5: every participant list has exactly one entry for each connection
\* registered with its roomId, and none for any other connection
C5_OneEntryPerRegistered ==
  \A r \in DOMAIN rooms, c \in Conns :
    EntriesFor(rooms[r], c) =
      (IF UsersGet(users, c) # NoUser /\ UsersGet(users, c).roomId = r
       THEN 1 ELSE 0)

\* what a relay from a registered connection must emit: one message, to
\* one connection registered with (targetUserId, roomId), or nothing at all
\* when there is none
DeliveredOnce(out, ev, targetUserId, roomId, what) ==
  IF Registered(targetUserId, roomId) = {} THEN out = NoneSent
  ELSE /\ BagCardinality(out) = 1
       /\ \E m \in BagToSet(out) :
            /\ m.to \in Registered(targetUserId, roomId)
            /\ m.ev = ev
            /\ m.what = what

C13_UnregisteredRelayDropped ==
  /\ ~ uncaught
  /\ Transmitted =>
       \A c \in Conns, r \in RoomIds, x \in Payloads :
         (sockets[c] = "connected" /\ UsersGet(users, c) = NoUser) =>
           /\ \A kind \in RelayKinds, u \in UserIds :
                RelayEmits(users, kind, c, u, r, x) = NoneSent
           /\ \A v \in UserIds, u \in UserIds :
                PeerConnectionStateEmits(users, c, v, u, r, x) = NoneSent
           /\ StreamTypeOutcome(users, joined, c, r, x).sent = NoneSent

\* the error acknowledgment of a join-room of socket c
ErrorAck(c) == Unicast(c, "ack", "", <<"error">>)

\* C14: whenever a handler runs, a join-room with an empty or missing
\* roomId, userId or userType emits an error acknowledgment to its sender
\* and nothing else, and leaves users, rooms and the socket.io rooms as they
\* were; and a step that emits an error acknowledgment changes none of them
C14_InvalidJoinRejected ==
  /\ [](Transmitted =>
          \A c \in Conns, r \in RoomIds \cup {""}, u \in UserIds \cup {""} :
            \A t \in {UserTypeOf(u), ""} :
              (sockets[c] = "connected" /\ (r = "" \/ u = "" \/ t = "")) =>
                JoinRoomOutcome(users, rooms, joined, c, r, u, t) =
                  Outcome(users, rooms, joined, ErrorAck(c)))
  /\ [][(\E c \in Conns : sent' = ErrorAck(c))
         => UNCHANGED <<users, rooms, joined>>]_vars

\* a join-room has just been refused while another connection is registered
\* in a room
C14_Witness ==
  \E c \in Conns :
    /\ sent = ErrorAck(c)
    /\ \E d \in Conns \ {c} :
         /\ UsersGet(users, d) # NoUser
         /\ joined[d] # {}

\* the participant list of room r, empty for a room not created yet
ListOf(rs, r) == IF r \in DOMAIN rs THEN rs[r] ELSE << >>

\* the connections with an entry in a participant list
MembersOf(room) == {room[i].socketId : i \in 1 .. Len(room)}

\* C15: whenever a handler runs, a valid join-room of socket c registers
\* the participant, appends its entry at the end of the list of the room,
\* emits exactly one user-joined to every other connection with an entry
\* in the list and none to c, and emits to c the entries the list held
\* before the call, in order, without those of c
C15_ValidJoin ==
  Transmitted =>
    \A c \in Conns, r \in RoomIds, u \in UserIds :
      sockets[c] = "connected" =>
        LET t == UserTypeOf(u)
            o == JoinRoomOutcome(users, rooms, joined, c, r, u, t)
            before == ListOf(rooms, r)
        IN /\ UsersGet(o.users, c) =
                [socketId |-> c, roomId |-> r, userId |-> u, userType |-> t]
           /\ o.rooms[r] =
                Append(before, [socketId |-> c, userId |-> u, userType |-> t])
           /\ \A d \in MembersOf(before) \ {c} :
                CopiesIn(Msg(d, "user-joined", u, <<t>>), o.sent) = 1
           /\ CopiesIn(Msg(c, "user-joined", u, <<t>>), o.sent) = 0
           /\ CopiesIn(Msg(c, "room-users", "",
                           SelectSeq(before, LAMBDA e : e.socketId # c)),
                       o.sent) = 1

\* what leave-room and disconnect must leave for socket c registered as
\* user: no record, the list of the room of the record without the entry
\* of c, and one user-left to each other connection with an entry in it
HasLeft(o, c, user) ==
  /\ UsersGet(o.users, c) = NoUser
  /\ ListOf(o.rooms, user.roomId) =
       RemoveEntry(ListOf(rooms, user.roomId), c)
  /\ \A d \in Conns \ {c} :
       CopiesIn(Msg(d, "user-left", user.userId, << >>), o.sent) =
         (IF d \in MembersOf(ListOf(o.rooms, user.roomId)) THEN 1 ELSE 0)

\* C16: whenever a handler runs, a leave-room or a disconnect of a
\* registered connection removes its entry from the list of the room it is
\* registered in, emits exactly one user-left to each connection that
\* remains in that list, and deletes the record; for a connection without
\* a record both leave users and rooms as they were and emit nothing
C16_LeaveRemovesParticipant ==
  Transmitted =>
    \A c \in Conns :
      sockets[c] = "connected" =>
        LET user == UsersGet(users, c)
            gone == DisconnectOutcome(users, rooms, joined, c)
        IN IF user # NoUser
           THEN /\ HasLeft(gone, c, user)
                /\ \A r \in RoomIds :
                     HasLeft(LeaveRoomOutcome(users, rooms, joined, c, r),
                             c, user)
           ELSE /\ gone.users = users /\ gone.rooms = rooms
                /\ gone.sent = NoneSent
                /\ \A r \in RoomIds :
                     LET o == LeaveRoomOutcome(users, rooms, joined, c, r)
                     IN o.users = users /\ o.rooms = rooms
                        /\ o.sent = NoneSent

\* every message of a bag names who as its sender and carries what
AllFrom(out, who, what) ==
  \A m \in BagToSet(out) : m.who = who /\ m.what = what

\* C22: whenever a handler runs, whatever a registered connection has
\* relayed (offer, answer, ice-candidate, peer-connection-state,
\* stream-type) reaches its receivers with the userId of the sender's
\* record, for every userId the message itself may name, and with the
\* payload of the message
C22_SenderIsRegisteredUser ==
  Transmitted =>
    \A c \in Conns, u \in UserIds, r \in RoomIds, x \in Payloads :
      (sockets[c] = "connected" /\ UsersGet(users, c) # NoUser) =>
        LET who == UsersGet(users, c).userId
        IN /\ \A kind \in RelayKinds :
                AllFrom(RelayEmits(users, kind, c, u, r, x), who, <<x>>)
           /\ \A v \in UserIds :
                AllFrom(PeerConnectionStateEmits(users, c, v, u, r, x),
                        who, <<u, x>>)
           /\ AllFrom(StreamTypeOutcome(users, joined, c, r, x).sent,
                      who, <<x>>)

\* a peer-connection-state is on its way from one registered connection to
\* another, under the sender's registered userId
C22_Witness ==
  \E m \in BagToSet(sent), c \in Conns :
    /\ m.ev = "peer-connection-state"
    /\ m.to # c
    /\ UsersGet(users, c) # NoUser
    /\ UsersGet(users, c).userId = m.who
    /\ UsersGet(users, m.to).userId # m.who

\* every message of a bag goes to a connection registered in the room
AllInRoom(out, roomId) ==
  \A m \in BagToSet(out) : UsersGet(users, m.to).roomId = roomId

\* C30: whenever a handler runs, an offer, answer, ice-candidate or
\* peer-connection-state of a registered connection is delivered only to
\* a connection registered in the room of the sender's record, whatever
\* roomId the message names
C30_RelayStaysInRoom ==
  Transmitted =>
    \A c \in Conns, u \in UserIds, r \in RoomIds, x \in Payloads :
      (sockets[c] = "connected" /\ UsersGet(users, c) # NoUser) =>
        LET own == UsersGet(users, c).roomId
        IN /\ \A kind \in RelayKinds :
                AllInRoom(RelayEmits(users, kind, c, u, r, x), own)
           /\ \A v \in UserIds :
                AllInRoom(PeerConnectionStateEmits(users, c, v, u, r, x), own)

(***************************************************************************)
(* Properties of getIceServers                                             *)
(***************************************************************************)
\* the TURN entries an environment configures: the pieces of
\* TURN_SERVER_URL between commas, without the white space around them (an
\* empty piece is a bare host without a name)
TurnEntries(e) ==
  IF e.url = UnsetUrl \/ e.url = << >> THEN << >>
  ELSE [i \in 1 .. Len(Split(e.url)) |-> Trim(Split(e.url)[i])]

\* where the servers of the k-th TURN entry start in the list
RECURSIVE PlaceOf(_, _)
PlaceOf(entries, k) ==
  IF k = 1 THEN 3
  ELSE PlaceOf(entries, k - 1)
         + (IF HasScheme(entries[k - 1]) THEN 1 ELSE 2)

\* C21: the list getIceServers returns begins with the two STUN entries;
\* each TURN entry in order gives one server with its URL as it is when it
\* carries a turn: or turns: prefix, and two servers (transport=udp, then
\* transport=tcp) when it is a bare host; every TURN server carries the
\* configured username and credential; and without a TURN entry the list
\* is the two STUN entries
C21_IceServersResolved ==
  iceServers # NotCalled =>
    LET entries == TurnEntries(env)
        n == Len(entries)
    IN /\ Len(iceServers) = PlaceOf(entries, n + 1) - 1
       /\ SubSeq(iceServers, 1, 2) = StunServers
       /\ \A k \in 1 .. n :
            LET at == PlaceOf(entries, k)
            IN IF HasScheme(entries[k])
               THEN iceServers[at].urls = entries[k]
               ELSE /\ iceServers[at].urls =
                         <<"turn:">> \o entries[k] \o <<"?transport=udp">>
                    /\ iceServers[at + 1].urls =
                         <<"turn:">> \o entries[k] \o <<"?transport=tcp">>
       /\ \A i \in 3 .. Len(iceServers) :
            /\ iceServers[i].username =
                 (IF env.username = "" THEN Undefined ELSE env.username)
            /\ iceServers[i].credential =
                 (IF env.credential = "" THEN Undefined ELSE env.credential)
       /\ n = 0 => iceServers = StunServers

\* getIceServers has resolved a turns: URL and a bare host with white space
\* before it, with a username and a credential
C21_Witness ==
  /\ Len(iceServers) = 5
  /\ env.url = <<"turns:", ",", " ", "h">>
  /\ iceServers[3].urls = <<"turns:">>
  /\ iceServers[4].urls = <<"turn:", "h", "?transport=udp">>
  /\ iceServers[5].username = "alice"
  /\ iceServers[5].credential = "secret"
=============================================================================
